---- MODULE Spec2Model ----
(***************************************************************************)
(* A model of send_first_img.py: one run of main(), which reads two        *)
(* credentials from the environment, fetches the shop page, extracts the   *)
(* first item's image reference and caption, downloads the image and       *)
(* posts it to the Telegram sendPhoto endpoint.                            *)
(*                                                                         *)
(* Text is modelled as a sequence of atoms.  The atoms "/", ".", ":" and   *)
(* " " are single characters; every other atom is an opaque run of         *)
(* letters and digits (a word).  Prefix tests, trimming, splitting on "/"  *)
(* and concatenation are computed on these sequences.                      *)
(***************************************************************************)
EXTENDS Integers, Sequences, FiniteSets, TLC

VARIABLES
    pc,           \* position in main(): the statement about to run
    token,        \* os.getenv("TELEGRAM_BOT_TOKEN")
    chat_id,      \* os.getenv("TELEGRAM_CHAT_ID")
    replies,      \* the answers the network gave to the requests issued so far, in order
    image_url,    \* main's image_url
    caption,      \* main's caption
    image_bytes,  \* main's image_bytes
    res,          \* main's res: the decoded sendPhoto response
    calls,        \* the network requests issued so far, in order
    out,          \* the lines printed so far
    exit_status   \* <<>> while the process runs, <<code>> once it has ended

vars == <<pc, token, chat_id, replies, image_url, caption, image_bytes, res,
          calls, out, exit_status>>

-----------------------------------------------------------------------------
(* Bounds of the model *)

\* the longest page, in elements
MaxElems == 2

\* the longest raw src attribute, in atoms
MaxSrcLen == 3

-----------------------------------------------------------------------------
(* Text helpers (str.startswith, str.strip, str.split("/"), "/".join) *)

StartsWith(s, p) ==
    /\ Len(s) >= Len(p)
    /\ SubSeq(s, 1, Len(p)) = p

IsSpace(c) == c = " "

RECURSIVE LStrip(_)
LStrip(s) ==
    IF s # <<>> /\ IsSpace(Head(s)) THEN LStrip(Tail(s)) ELSE s

RECURSIVE RStrip(_)
RStrip(s) ==
    IF s # <<>> /\ IsSpace(s[Len(s)]) THEN RStrip(SubSeq(s, 1, Len(s) - 1)) ELSE s

Strip(s) == RStrip(LStrip(s))

RECURSIVE SplitSlash(_)
SplitSlash(s) ==
    IF s = <<>> THEN << <<>> >>
    ELSE LET rest == SplitSlash(Tail(s))
         IN  IF Head(s) = "/"
             THEN << <<>> >> \o rest
             ELSE << <<Head(s)>> \o Head(rest) >> \o Tail(rest)

RECURSIVE JoinSlash(_)
JoinSlash(segs) ==
    IF segs = <<>> THEN <<>>
    ELSE IF Len(segs) = 1 THEN segs[1]
    ELSE segs[1] \o <<"/">> \o JoinSlash(Tail(segs))

-----------------------------------------------------------------------------
(* urllib.parse, as requests.compat.urljoin uses it *)

Special == {"/", ".", ":", " "}

\* a scheme is letters, digits, "+", "-" and "." up to the first ":"
SchemeLen(u) ==
    IF \E i \in 2..Len(u) :
           /\ u[i] = ":"
           /\ u[1] \notin Special
           /\ \A j \in 1..(i - 1) : u[j] \notin {"/", ":", " "}
    THEN CHOOSE i \in 2..Len(u) :
           /\ u[i] = ":"
           /\ \A j \in 1..(i - 1) : u[j] # ":"
    ELSE 0

HasScheme(u) == SchemeLen(u) > 0

\* the first "/" of s at or after position i, Len(s) + 1 when there is none
RECURSIVE NextSlash(_, _)
NextSlash(s, i) ==
    IF i > Len(s) THEN Len(s) + 1
    ELSE IF s[i] = "/" THEN i
    ELSE NextSlash(s, i + 1)

\* the netloc and path of what follows the scheme
SplitNetloc(scheme, rest, cut) ==
    IF StartsWith(rest, <<"/", "/">>)
    THEN [scheme |-> scheme,
          netloc |-> SubSeq(rest, 3, cut - 1),
          path   |-> SubSeq(rest, cut, Len(rest))]
    ELSE [scheme |-> scheme, netloc |-> <<>>, path |-> rest]

SplitScheme(u, default_scheme, n) ==
    SplitNetloc(IF n > 0 THEN SubSeq(u, 1, n - 1) ELSE default_scheme,
                SubSeq(u, n + 1, Len(u)),
                NextSlash(SubSeq(u, n + 1, Len(u)), 3))

urlparse(u, default_scheme) == SplitScheme(u, default_scheme, SchemeLen(u))

\* "//" + netloc + path, the path made to start with "/"
WithNetloc(netloc, path) ==
    IF netloc = <<>> THEN path
    ELSE IF path # <<>> /\ Head(path) # "/" THEN <<"/", "/">> \o netloc \o <<"/">> \o path
    ELSE <<"/", "/">> \o netloc \o path

urlunparse(scheme, netloc, path) ==
    IF scheme # <<>> THEN scheme \o <<":">> \o WithNetloc(netloc, path)
    ELSE WithNetloc(netloc, path)

Dot == <<".">>
DotDot == <<".", ".">>

\* the loop of urljoin that resolves "." and ".." segments
RECURSIVE ResolveSegments(_, _)
ResolveSegments(segments, resolved) ==
    IF segments = <<>> THEN resolved
    ELSE LET seg == Head(segments)
         IN  IF seg = DotDot
             THEN ResolveSegments(Tail(segments),
                                  IF resolved = <<>> THEN resolved
                                  ELSE SubSeq(resolved, 1, Len(resolved) - 1))
             ELSE IF seg = Dot
             THEN ResolveSegments(Tail(segments), resolved)
             ELSE ResolveSegments(Tail(segments), Append(resolved, seg))

\* the inner segments of a relative path lose their empty members
RECURSIVE DropEmpty(_)
DropEmpty(segs) ==
    IF segs = <<>> THEN <<>>
    ELSE IF Head(segs) = <<>> THEN DropEmpty(Tail(segs))
    ELSE <<Head(segs)>> \o DropEmpty(Tail(segs))

\* base_parts: the segments of the base path without the last non-empty one
BaseParts(bsplit) ==
    IF bsplit[Len(bsplit)] # <<>> THEN SubSeq(bsplit, 1, Len(bsplit) - 1) ELSE bsplit

\* segments[1:-1] = filter(None, segments[1:-1])
FilterInner(joined) ==
    IF Len(joined) <= 2 THEN joined
    ELSE <<joined[1]>> \o DropEmpty(SubSeq(joined, 2, Len(joined) - 1))
                       \o <<joined[Len(joined)]>>

\* a path that starts at the root ignores the base path
Segments(bpath, path) ==
    IF Head(path) = "/" THEN SplitSlash(path)
    ELSE FilterInner(BaseParts(SplitSlash(bpath)) \o SplitSlash(path))

\* a trailing "." or ".." leaves a trailing "/"
CloseSegments(segments, resolved) ==
    IF segments[Len(segments)] \in {Dot, DotDot} THEN Append(resolved, <<>>) ELSE resolved

\* '/'.join(resolved_path) or '/'
OrRoot(path) == IF path = <<>> THEN <<"/">> ELSE path

ResolvedPath(segments) ==
    OrRoot(JoinSlash(CloseSegments(segments, ResolveSegments(segments, <<>>))))

JoinParsed(url, b, u) ==
    IF u.scheme # b.scheme THEN url
    ELSE IF u.netloc # <<>> THEN urlunparse(u.scheme, u.netloc, u.path)
    ELSE IF u.path = <<>> THEN urlunparse(u.scheme, b.netloc, b.path)
    ELSE urlunparse(u.scheme, b.netloc, ResolvedPath(Segments(b.path, u.path)))

JoinToBase(url, b) == JoinParsed(url, b, urlparse(url, b.scheme))

urljoin(base, url) ==
    IF base = <<>> THEN url
    ELSE IF url = <<>> THEN base
    ELSE JoinToBase(url, urlparse(base, <<>>))

-----------------------------------------------------------------------------
(* Program constants *)

URL == <<"https", ":", "/", "/", "www.nogizaka46shop.com", "/", "category", "/", "426">>

\* os.getenv of a variable that is not set
None == "<None>"

\* a test for None alone, which lets an empty value through
TruthyNoneOnly(v) == v # None

\* Python truthiness of an environment value
Truthy(v) == v # None /\ v # ""

-----------------------------------------------------------------------------
(* The inputs of a run *)

EnvValues == {None, "", "123:ABC"}
ChatValues == {None, "", "-1001"}

SrcAtoms == {"/", ".", ":", " ", "a"}

RECURSIVE SeqsUpTo(_, _)
SeqsUpTo(S, n) ==
    IF n = 0 THEN {<<>>}
    ELSE LET shorter == SeqsUpTo(S, n - 1)
         IN  shorter \cup {Append(s, x) : s \in {t \in shorter : Len(t) = n - 1}, x \in S}

\* every raw src attribute of at most MaxSrcLen atoms
RawSrcs == SeqsUpTo(SrcAtoms, MaxSrcLen)

ProtocolRelativeSrc == <<"/", "/", "img.example.com", "/", "p.png">>
AbsoluteSrc == <<"https", ":", "/", "/", "cdn.example.com", "/", "x.jpg">>

ImgNoSrc == [has_src |-> FALSE, src |-> <<>>]
Img(s) == [has_src |-> TRUE, src |-> s]

ItemId == <<"item_", "9", "9">>
ItemIdSuffixed == <<"item_", "9", "x">>
OtherId == <<"id_", "9", "9">>

Digits == {"0", "1", "2", "3", "4", "5", "6", "7", "8", "9"}

\* tag and id of the elements a page is built from
Heads == {[tag |-> "div", id |-> ItemId],
          [tag |-> "div", id |-> ItemIdSuffixed],
          [tag |-> "div", id |-> OtherId],
          [tag |-> "span", id |-> ItemId]}

CaptionText == <<"New Release">>

Bodies == {[imgs |-> i, dds |-> d] :
              i \in {<<>>, <<ImgNoSrc, Img(ProtocolRelativeSrc)>>,
                     <<Img(ProtocolRelativeSrc)>>, <<Img(AbsoluteSrc)>>},
              d \in {<<>>, <<CaptionText>>}}

Elem(h, b) == [tag |-> h.tag, id |-> h.id, imgs |-> b.imgs, dds |-> b.dds]

Elems == {Elem(h, b) : h \in Heads, b \in Bodies}

\* pages of up to MaxElems elements of varied structure
StructPages == SeqsUpTo(Elems, MaxElems)

\* pages of one item container whose image carries any raw src
SrcPages == {<<[tag |-> "div", id |-> ItemId,
                imgs |-> <<Img(s)>>, dds |-> <<<<" ", "Caption Text", " ">>>>]>> : s \in RawSrcs}

Pages == StructPages \cup SrcPages

Statuses == {200, 404, 500}

\* what requests.get(url) may answer for the page
PageResponses ==
    {[transport_ok |-> FALSE, status |-> 0, body |-> <<>>]}
    \cup {[transport_ok |-> TRUE, status |-> st, body |-> <<>>] : st \in Statuses \ {200}}
    \cup {[transport_ok |-> TRUE, status |-> 200, body |-> p] : p \in Pages}

NoBytes == [size |-> 0, tag |-> ""]
Payloads == {[size |-> 500, tag |-> "A"], [size |-> 500, tag |-> "B"]}

\* what requests.get(image_url) may answer
ImageResponses ==
    {[transport_ok |-> FALSE, status |-> 0, content |-> NoBytes]}
    \cup {[transport_ok |-> TRUE, status |-> st, content |-> NoBytes] : st \in Statuses \ {200}}
    \cup {[transport_ok |-> TRUE, status |-> 200, content |-> c] : c \in Payloads}

NoJson == [is_object |-> FALSE, has_ok |-> FALSE, ok |-> FALSE]

\* the decoded bodies: {"ok": true}, {"ok": false}, {} and [] (valid JSON, not an object)
JsonValues ==
    {[is_object |-> TRUE, has_ok |-> TRUE, ok |-> TRUE],
     [is_object |-> TRUE, has_ok |-> TRUE, ok |-> FALSE],
     [is_object |-> TRUE, has_ok |-> FALSE, ok |-> FALSE],
     NoJson}

\* what requests.post(api, ...) may answer
PostResponses ==
    {[transport_ok |-> FALSE, status |-> 0, parseable |-> FALSE, json |-> NoJson]}
    \cup {[transport_ok |-> TRUE, status |-> st, parseable |-> TRUE, json |-> NoJson] :
             st \in Statuses \ {200}}
    \cup {[transport_ok |-> TRUE, status |-> 200, parseable |-> FALSE, json |-> NoJson]}
    \cup {[transport_ok |-> TRUE, status |-> 200, parseable |-> TRUE, json |-> j] :
             j \in JsonValues}

-----------------------------------------------------------------------------
(* requests *)

\* Response.raise_for_status raises HTTPError for a 4xx or 5xx status
RaisesForStatus(status) == 400 <= status /\ status < 600

NoCaption == <<>>

Get(by, url, timeout) ==
    [by |-> by, method |-> "GET", url |-> url, timeout |-> timeout,
     chat_id |-> "", caption |-> NoCaption, photo |-> NoBytes, filename |-> ""]

-----------------------------------------------------------------------------
(* get_first_item *)

\* re.compile(r"^item_\d+") searched in the id attribute
IdMatches(id) ==
    /\ Len(id) >= 2
    /\ id[1] = "item_"
    /\ id[2] \in Digits

\* soup.find(id=...) with the tag name left out
IsItemAnyTag(e) == IdMatches(e.id)

\* what soup.find("div", id=...) tests on each element
IsItemDiv(e) == e.tag = "div" /\ IdMatches(e.id)

\* soup.find: the position of the first match in document order, 0 when none
FindItemDiv(doc) ==
    IF \E i \in 1..Len(doc) : IsItemDiv(doc[i])
    THEN CHOOSE i \in 1..Len(doc) :
             /\ IsItemDiv(doc[i])
             /\ \A j \in 1..(i - 1) : ~IsItemDiv(doc[j])
    ELSE 0

\* the normalisation without its elif branch: a site-relative src is left as it is
NormalizeSrcNoJoin(url, src) ==
    IF StartsWith(src, <<"/", "/">>) THEN <<"https", ":">> \o src ELSE src

\* the src normalisation of get_first_item
NormalizeSrc(url, src) ==
    IF StartsWith(src, <<"/", "/">>) THEN <<"https", ":">> \o src
    ELSE IF StartsWith(src, <<"/">>) THEN urljoin(url, src)
    ELSE src

\* div.find("img") and the test on it: no img, or an img whose src is missing or empty
LacksImage(div) ==
    \/ div.imgs = <<>>
    \/ ~div.imgs[1].has_src
    \/ div.imgs[1].src = <<>>

\* dd.get_text(strip=True) of the first dd, "" when there is none
CaptionOf(div) ==
    IF div.dds # <<>> THEN Strip(div.dds[1]) ELSE <<>>

Raise(exc) == [raised |-> TRUE, exc |-> exc, src |-> <<>>, caption |-> <<>>]

\* dd.get_text called without the test for a missing dd
ExtractItemRequireDd(url, div) ==
    IF LacksImage(div) THEN Raise(<<"No image tag found in the first item div">>)
    ELSE IF div.dds = <<>> THEN Raise(<<"AttributeError">>)
    ELSE [raised  |-> FALSE,
          exc     |-> <<>>,
          src     |-> NormalizeSrc(url, Strip(div.imgs[1].src)),
          caption |-> Strip(div.dds[1])]

\* lines 36-51 on the div that soup.find returned
ExtractItem(url, div) ==
    IF LacksImage(div) THEN Raise(<<"No image tag found in the first item div">>)
    ELSE [raised  |-> FALSE,
          exc     |-> <<>>,
          src     |-> NormalizeSrc(url, Strip(div.imgs[1].src)),
          caption |-> CaptionOf(div)]

\* lines 32-34: the div at position i, none when i = 0
ExtractAt(url, doc, i) ==
    IF i = 0 THEN Raise(<<"No item div found on the page">>)
    ELSE ExtractItem(url, doc[i])

\* the value get_first_item(url) returns, or the exception it raises,
\* when requests.get answers resp
get_first_item(url, resp) ==
    IF ~resp.transport_ok THEN Raise(<<"ConnectionError">>)
    ELSE IF RaisesForStatus(resp.status) THEN Raise(<<"HTTPError">>)
    ELSE ExtractAt(url, resp.body, FindItemDiv(resp.body))

-----------------------------------------------------------------------------
(* send_photo_telegram *)

SendPhotoApi(bot_token) ==
    <<"https", ":", "/", "/", "api.telegram.org", "/", "bot", bot_token, "/", "sendPhoto">>

\* the form data built without the caption
SendPhotoRequestNoCaption(bot_token, chat, bytes, cap) ==
    [by |-> "send_photo_telegram", method |-> "POST", url |-> SendPhotoApi(bot_token), timeout |-> 30,
     chat_id |-> chat, caption |-> NoCaption, photo |-> bytes, filename |-> "image.jpg"]

SendPhotoRequest(bot_token, chat, bytes, cap) ==
    [by |-> "send_photo_telegram", method |-> "POST", url |-> SendPhotoApi(bot_token), timeout |-> 30,
     chat_id |-> chat, caption |-> cap, photo |-> bytes, filename |-> "image.jpg"]

\* requests.post, raise_for_status and resp.json() each may raise
SendPhotoRaises(resp) ==
    \/ ~resp.transport_ok
    \/ RaisesForStatus(resp.status)
    \/ ~resp.parseable

-----------------------------------------------------------------------------
(* main *)

Line(label, value) == [label |-> label, value |-> value]

Init ==
    /\ pc = "start"
    /\ token = None
    /\ chat_id = None
    /\ replies = <<>>
    /\ image_url = <<>>
    /\ caption = <<>>
    /\ image_bytes = NoBytes
    /\ res = NoJson
    /\ calls = <<>>
    /\ out = <<>>
    /\ exit_status = <<>>

\* lines 70-74: read the two variables, exit 2 unless both are non-empty
MainCheckEnv ==
    /\ pc = "start"
    /\ \E t \in EnvValues, c \in ChatValues :
        /\ token' = t
        /\ chat_id' = c
        /\ IF ~Truthy(t) \/ ~Truthy(c)
           THEN /\ out' = Append(out, Line("Please set TELEGRAM_BOT_TOKEN and TELEGRAM_CHAT_ID environment variables.", <<>>))
                /\ exit_status' = <<2>>
                /\ pc' = "exited"
           ELSE /\ pc' = "get_first_item"
                /\ UNCHANGED <<out, exit_status>>
    /\ UNCHANGED <<replies, image_url, caption, image_bytes, res, calls>>

\* lines 76-83 once get_first_item has returned or raised r
AfterGetFirstItem(r) ==
    IF r.raised
    THEN /\ out' = Append(out, Line("Error fetching/parsing page:", r.exc))
         /\ exit_status' = <<1>>
         /\ pc' = "exited"
         /\ UNCHANGED <<image_url, caption>>
    ELSE /\ image_url' = r.src
         /\ caption' = r.caption
         /\ out' = out \o <<Line("Found image:", r.src), Line("Caption:", r.caption)>>
         /\ pc' = "download"
         /\ UNCHANGED exit_status

\* lines 76-83: get_first_item(URL) under try, then the two prints
MainGetFirstItem ==
    /\ pc = "get_first_item"
    /\ \E resp \in PageResponses :
        /\ calls' = Append(calls, Get("get_first_item", URL, 15))
        /\ replies' = Append(replies, resp)
        /\ AfterGetFirstItem(get_first_item(URL, resp))
    /\ UNCHANGED <<token, chat_id, image_bytes, res>>

\* the download stage without sys.exit(1) in its except clause
MainDownloadNoExit ==
    /\ pc = "download"
    /\ \E resp \in ImageResponses :
        /\ calls' = Append(calls, Get("download_image_bytes", image_url, 20))
        /\ replies' = Append(replies, resp)
        /\ image_bytes' = resp.content
        /\ IF ~resp.transport_ok \/ RaisesForStatus(resp.status)
           THEN out' = Append(out, Line("Error downloading image:",
                                        IF resp.transport_ok THEN <<"HTTPError">>
                                        ELSE <<"ConnectionError">>))
           ELSE UNCHANGED out
        /\ pc' = "send"
        /\ UNCHANGED exit_status
    /\ UNCHANGED <<token, chat_id, image_url, caption, res>>

\* lines 85-89: download_image_bytes(image_url) under try
MainDownload ==
    /\ pc = "download"
    /\ \E resp \in ImageResponses :
        /\ calls' = Append(calls, Get("download_image_bytes", image_url, 20))
        /\ replies' = Append(replies, resp)
        /\ IF ~resp.transport_ok \/ RaisesForStatus(resp.status)
           THEN /\ out' = Append(out, Line("Error downloading image:",
                                           IF resp.transport_ok THEN <<"HTTPError">>
                                           ELSE <<"ConnectionError">>))
                /\ exit_status' = <<1>>
                /\ pc' = "exited"
                /\ UNCHANGED image_bytes
           ELSE /\ image_bytes' = resp.content
                /\ pc' = "send"
                /\ UNCHANGED <<out, exit_status>>
    /\ UNCHANGED <<token, chat_id, image_url, caption, res>>

\* the notify stage trying again after a failure instead of exiting
MainSendRetry ==
    /\ pc = "send"
    /\ \E resp \in PostResponses :
        /\ calls' = Append(calls, SendPhotoRequest(token, chat_id, image_bytes, caption))
        /\ replies' = Append(replies, resp)
        /\ IF SendPhotoRaises(resp)
           THEN /\ Len(calls) < 4
                /\ out' = Append(out, Line("Error sending to Telegram:", <<"retrying">>))
                /\ pc' = "send"
                /\ UNCHANGED <<res, exit_status>>
           ELSE /\ res' = resp.json
                /\ pc' = "report"
                /\ UNCHANGED <<out, exit_status>>
    /\ UNCHANGED <<token, chat_id, image_url, caption, image_bytes>>

\* lines 91-95: send_photo_telegram(token, chat_id, image_bytes, caption) under try
MainSend ==
    /\ pc = "send"
    /\ \E resp \in PostResponses :
        /\ calls' = Append(calls, SendPhotoRequest(token, chat_id, image_bytes, caption))
        /\ replies' = Append(replies, resp)
        /\ IF SendPhotoRaises(resp)
           THEN /\ out' = Append(out, Line("Error sending to Telegram:",
                                           IF ~resp.transport_ok THEN <<"ConnectionError">>
                                           ELSE IF RaisesForStatus(resp.status) THEN <<"HTTPError">>
                                           ELSE <<"JSONDecodeError">>))
                /\ exit_status' = <<1>>
                /\ pc' = "exited"
                /\ UNCHANGED res
           ELSE /\ res' = resp.json
                /\ pc' = "report"
                /\ UNCHANGED <<out, exit_status>>
    /\ UNCHANGED <<token, chat_id, image_url, caption, image_bytes>>

\* str(res.get("ok")) of a decoded object
OkText(json) ==
    IF ~json.has_ok THEN <<"None">>
    ELSE IF json.ok THEN <<"True">>
    ELSE <<"False">>

\* lines 97-98, outside every try: res.get("ok") and the last print; a decoded
\* value that is no object has no get, and the AttributeError ends the process
\* with a traceback and status 1
MainReport ==
    /\ pc = "report"
    /\ IF res.is_object
       THEN /\ out' = Append(out, Line("Telegram API returned ok=", OkText(res)))
            /\ exit_status' = <<0>>
       ELSE /\ out' = Append(out, Line("Traceback (most recent call last):", <<"AttributeError">>))
            /\ exit_status' = <<1>>
    /\ pc' = "exited"
    /\ UNCHANGED <<token, chat_id, replies, image_url, caption, image_bytes, res, calls>>

Next ==
    \/ MainCheckEnv
    \/ MainGetFirstItem
    \/ MainDownload
    \/ MainSend
    \/ MainReport

Spec == Init /\ [][Next]_vars

-----------------------------------------------------------------------------
(* Vocabulary of the properties *)

Ended(code) == pc = "exited" /\ exit_status = <<code>>

\* the functions that issued the requests so far, in order
Ops == [i \in 1..Len(calls) |-> calls[i].by]

AllOps == <<"get_first_item", "download_image_bytes", "send_photo_telegram">>

LastLabel == out[Len(out)].label

\* an answer that is a transport error or carries an error status (4xx, 5xx)
HttpFailed(r) == ~r.transport_ok \/ r.status >= 400

\* the document of the page answer
Doc == replies[1].body

PageAnswered == Len(replies) >= 1 /\ ~HttpFailed(replies[1])

\* get_first_item returned: main printed what it found
Extracted == Len(out) >= 1 /\ out[1].label = "Found image:"

\* the five states of a run and its failure state
State ==
    IF pc = "exited" THEN (IF exit_status = <<0>> THEN "DONE" ELSE "FAILED")
    ELSE IF pc \in {"start", "get_first_item"} THEN "START"
    ELSE IF pc = "download" THEN "FETCHED"
    ELSE IF pc = "send" THEN "DOWNLOADED"
    ELSE "NOTIFIED"

Forward(st) ==
    IF st = "START" THEN "FETCHED"
    ELSE IF st = "FETCHED" THEN "DOWNLOADED"
    ELSE IF st = "DOWNLOADED" THEN "NOTIFIED"
    ELSE "DONE"

\* a div whose id starts with item_ and a digit
IsPrefixDiv(e) ==
    /\ e.tag = "div"
    /\ Len(e.id) >= 2
    /\ e.id[1] = "item_"
    /\ e.id[2] \in Digits

\* an element of any tag whose whole id is item_ and one or more digits
IsAnchoredElem(e) ==
    /\ Len(e.id) >= 2
    /\ e.id[1] = "item_"
    /\ \A k \in 2..Len(e.id) : e.id[k] \in Digits

\* the first div of the document of the first kind, 0 when there is none
PrefixDivAt ==
    IF \E i \in 1..Len(Doc) : IsPrefixDiv(Doc[i])
    THEN CHOOSE i \in 1..Len(Doc) :
             IsPrefixDiv(Doc[i]) /\ \A j \in 1..(i - 1) : ~IsPrefixDiv(Doc[j])
    ELSE 0

\* the first element of the document of the second kind, 0 when there is none
AnchoredElemAt ==
    IF \E i \in 1..Len(Doc) : IsAnchoredElem(Doc[i])
    THEN CHOOSE i \in 1..Len(Doc) :
             IsAnchoredElem(Doc[i]) /\ \A j \in 1..(i - 1) : ~IsAnchoredElem(Doc[j])
    ELSE 0

\* the element has a first img whose src attribute is present and not empty
HasImageSrc(e) ==
    /\ e.imgs # <<>>
    /\ e.imgs[1].has_src
    /\ e.imgs[1].src # <<>>

\* image_url and caption are those of element e
TakenFrom(e) ==
    /\ image_url = NormalizeSrc(URL, Strip(e.imgs[1].src))
    /\ caption = (IF e.dds = <<>> THEN <<>> ELSE Strip(e.dds[1]))

\* the fetch and parse stage ended the run with an error
FetchStageFailed ==
    /\ ~Extracted
    /\ Ended(1)
    /\ LastLabel = "Error fetching/parsing page:"

\* scheme and host of the page URL
Origin == <<"https", ":", "/", "/", "www.nogizaka46shop.com">>

\* the trimmed src of the item container get_first_item selected
RawRef == Strip(Doc[PrefixDivAt].imgs[1].src)

NoDotSegments(path) ==
    \A k \in 1..Len(SplitSlash(path)) : SplitSlash(path)[k] \notin {Dot, DotDot}

-----------------------------------------------------------------------------
(* C1 *)

\* C1: once main has read the environment, a TELEGRAM_BOT_TOKEN or
\* TELEGRAM_CHAT_ID that is absent or empty means the run has ended with exit
\* code 2 and no request was issued and no answer received.
C1_MissingCredentialExitsTwo ==
    (pc # "start" /\ (token \in {None, ""} \/ chat_id \in {None, ""}))
        => (Ended(2) /\ calls = <<>> /\ replies = <<>>)

\* a run with the token set and the chat id empty has ended with code 2
C1_Witness ==
    /\ token = "123:ABC"
    /\ chat_id = ""
    /\ Ended(2)
    /\ calls = <<>>

-----------------------------------------------------------------------------
(* C2 *)

\* the page has no div whose id starts with item_ and a digit, or that div has
\* no image with a non-empty src
ExtractionFails(doc) ==
    \A i \in 1..Len(doc) :
        (/\ doc[i].tag = "div"
         /\ Len(doc[i].id) >= 2 /\ doc[i].id[1] = "item_" /\ doc[i].id[2] \in Digits
         /\ \A j \in 1..(i - 1) :
               ~(/\ doc[j].tag = "div"
                 /\ Len(doc[j].id) >= 2 /\ doc[j].id[1] = "item_" /\ doc[j].id[2] \in Digits))
        => (\/ doc[i].imgs = <<>>
            \/ ~doc[i].imgs[1].has_src
            \/ doc[i].imgs[1].src = <<>>)

FailedWith(n, label) ==
    /\ Ended(1)
    /\ Len(calls) = n
    /\ Len(replies) = n
    /\ LastLabel = label

-----------------------------------------------------------------------------
(* C3 *)

\* C3: when the sendPhoto POST answered with a success status and a parseable
\* body, the run ends with exit code 0, whatever the body's ok field is.
C3_ParseableAnswerExitsZero ==
    (/\ Len(replies) = 3
     /\ ~HttpFailed(replies[3])
     /\ replies[3].parseable
     /\ pc = "exited")
        => Ended(0)

-----------------------------------------------------------------------------
(* C4 *)

\* what one step of main may do to the state of the run and to the requests
C4_Step ==
    /\ State \notin {"DONE", "FAILED"}
    /\ \/ State' = State /\ State = "START" /\ calls' = calls
       \/ State' = Forward(State)
       \/ State' = "FAILED"
    /\ \/ calls' = calls
       \/ /\ Len(calls') = Len(calls) + 1
          /\ SubSeq(calls', 1, Len(calls)) = calls
    /\ Len(calls') <= 3
    /\ \A i \in 1..Len(calls') : calls'[i].by = AllOps[i]
    /\ (Len(calls') = 1 /\ calls = <<>>) => State = "START"
    /\ (Len(calls') = 2 /\ Len(calls) = 1) => State = "FETCHED"
    /\ (Len(calls') = 3 /\ Len(calls) = 2) => State = "DOWNLOADED"

\* C4: every step of main either stays in START without issuing a request,
\* moves to the next of START, FETCHED, DOWNLOADED, NOTIFIED, DONE, or enters
\* FAILED; DONE and FAILED are left by no step; the requests issued are a
\* prefix of page GET, image GET, sendPhoto POST, each at most once, the
\* image GET issued from FETCHED only and the POST from DOWNLOADED only.
C4_ForwardOnly == [][C4_Step]_vars

\* a run that went through all five states and issued the three requests
C4_Witness ==
    /\ State = "DONE"
    /\ Ops = AllOps

-----------------------------------------------------------------------------
(* C5 *)

\* C5 as stated: the image URL of a successful extraction is "https:" + r for
\* r starting with "//", scheme and host of the page URL followed by r for r
\* starting with "/", and r otherwise.
C5_VerbatimPath ==
    Extracted =>
        image_url = (IF StartsWith(RawRef, <<"/", "/">>) THEN <<"https", ":">> \o RawRef
                     ELSE IF StartsWith(RawRef, <<"/">>) THEN Origin \o RawRef
                     ELSE RawRef)

\* C5 amended: the image URL is "https:" + r for r starting with "//"; for r
\* starting with one "/" it is scheme and host of the page URL followed by a
\* rooted path free of "." and ".." segments, which is r itself when r has no
\* such segment; otherwise it is r.
C5_ResolvedPath ==
    Extracted =>
        /\ StartsWith(RawRef, <<"/", "/">>) => image_url = <<"https", ":">> \o RawRef
        /\ (StartsWith(RawRef, <<"/">>) /\ ~StartsWith(RawRef, <<"/", "/">>)) =>
              /\ StartsWith(image_url, Origin \o <<"/">>)
              /\ NoDotSegments(SubSeq(image_url, Len(Origin) + 1, Len(image_url)))
              /\ NoDotSegments(RawRef) => image_url = Origin \o RawRef
        /\ ~StartsWith(RawRef, <<"/">>) => image_url = RawRef

\* the src "/.." was resolved to the root of the site
C5_Witness ==
    /\ Extracted
    /\ RawRef = <<"/", ".", ".">>
    /\ image_url = Origin \o <<"/">>

-----------------------------------------------------------------------------
(* C6 *)

\* C6: the image URL of a successful extraction begins with a scheme.
C6_ImageUrlAbsolute ==
    Extracted => HasScheme(image_url)

-----------------------------------------------------------------------------
(* C7 *)

\* C7 as stated: the extractor takes image and caption from the first element
\* of any tag whose whole id is item_ and digits, and fails when the page has
\* no such element.
C7_AnchoredFirstElement ==
    PageAnswered =>
        IF AnchoredElemAt = 0 THEN FetchStageFailed
        ELSE IF HasImageSrc(Doc[AnchoredElemAt])
             THEN Extracted /\ TakenFrom(Doc[AnchoredElemAt])
             ELSE FetchStageFailed

\* C7 amended: the extractor takes image and caption from the first div in
\* document order whose id starts with item_ and a digit, whatever follows
\* the digit, and from that div only; it fails when the page has no such div.
C7_PrefixFirstDiv ==
    PageAnswered =>
        IF PrefixDivAt = 0 THEN FetchStageFailed
        ELSE IF HasImageSrc(Doc[PrefixDivAt])
             THEN Extracted /\ TakenFrom(Doc[PrefixDivAt])
             ELSE FetchStageFailed

\* a div with id item_9x and a caption precedes a div with id item_99 and
\* none, and the caption is the first one's
C7_Witness ==
    /\ PageAnswered
    /\ Len(Doc) = 2
    /\ Doc[1].tag = "div" /\ Doc[1].id = ItemIdSuffixed /\ Doc[1].dds = <<CaptionText>>
    /\ Doc[2].tag = "div" /\ Doc[2].id = ItemId /\ Doc[2].dds = <<>>
    /\ Extracted
    /\ caption = CaptionText

-----------------------------------------------------------------------------
(* C8 *)

\* C8: an item container without an img, or whose first img has no src, makes
\* get_first_item fail, and the image URL of a successful extraction is never
\* the empty string.
C8_NeverEmptyImageUrl ==
    (PageAnswered /\ PrefixDivAt # 0) =>
        /\ (Doc[PrefixDivAt].imgs = <<>> \/ ~Doc[PrefixDivAt].imgs[1].has_src)
              => FetchStageFailed
        /\ Extracted => image_url # <<>>

-----------------------------------------------------------------------------
(* C9 *)

\* C9: an item container with an image src and no dd makes get_first_item
\* succeed with the caption "": main prints it, goes on to the image GET, and
\* after a successful download posts with the caption "".
C9_MissingDdEmptyCaption ==
    (/\ PageAnswered
     /\ PrefixDivAt # 0
     /\ HasImageSrc(Doc[PrefixDivAt])
     /\ Doc[PrefixDivAt].dds = <<>>)
        => /\ Extracted
           /\ caption = <<>>
           /\ out[2] = Line("Caption:", <<>>)
           /\ pc = "download" \/ Len(calls) >= 2
           /\ (Len(replies) >= 2 /\ ~HttpFailed(replies[2]))
                 => (pc = "send" \/ Len(calls) = 3)
           /\ Len(calls) = 3 => calls[3].caption = <<>>

\* a run whose item had no dd ended with code 0 after posting the caption ""
C9_Witness ==
    /\ PageAnswered
    /\ PrefixDivAt # 0
    /\ Doc[PrefixDivAt].dds = <<>>
    /\ Ended(0)
    /\ Len(calls) = 3
    /\ calls[3].caption = <<>>

-----------------------------------------------------------------------------
(* C10 *)

ScenarioPage(id) ==
    <<[tag |-> "div", id |-> id,
       imgs |-> <<Img(ProtocolRelativeSrc)>>, dds |-> <<CaptionText>>]>>

\* the answers so far are those of the scenario: the page with one item div,
\* 500 image bytes, and {"ok": true}
InScenario(id) ==
    /\ Len(replies) >= 1
    /\ replies[1] = [transport_ok |-> TRUE, status |-> 200, body |-> ScenarioPage(id)]
    /\ Len(replies) >= 2 =>
          /\ ~HttpFailed(replies[2])
          /\ replies[2].content.size = 500
    /\ Len(replies) >= 3 =>
          /\ ~HttpFailed(replies[3])
          /\ replies[3].parseable
          /\ replies[3].json = [is_object |-> TRUE, has_ok |-> TRUE, ok |-> TRUE]

ScenarioResult ==
    /\ Ended(0)
    /\ out = <<Line("Found image:", <<"https", ":", "/", "/", "img.example.com", "/", "p.png">>),
               Line("Caption:", CaptionText),
               Line("Telegram API returned ok=", <<"True">>)>>
    /\ Ops = AllOps
    /\ calls[3].photo = replies[2].content
    /\ calls[3].caption = CaptionText
    /\ calls[3].chat_id = chat_id

\* C10 as stated: the scenario with an item div of id id_99 ends only with
\* exit code 0, the three lines printed and the downloaded bytes posted with
\* the caption.
C10_ScenarioId99 ==
    (InScenario(OtherId) /\ pc = "exited") => ScenarioResult

\* C10 amended: the scenario with an item div of id item_99 ends only with
\* exit code 0, the normalized image URL, the caption and ok True printed, and
\* the downloaded bytes posted with the caption.
C10_ScenarioItem99 ==
    (InScenario(ItemId) /\ pc = "exited") => ScenarioResult

\* the scenario ran to its end
C10_Witness ==
    /\ InScenario(ItemId)
    /\ Len(replies) = 3
    /\ replies[2].content.tag = "B"
    /\ Ended(0)

====
